---- MODULE Spec2Model ----
(***************************************************************************)
(* A model of the data sync service (src/data-sync/main.py) and of the     *)
(* relationship analysis (src/analyze_airtable_relationships.py).          *)
(*                                                                         *)
(* Five specifications share the module:                                   *)
(*   Spec         the sync service: processes started from main(), the     *)
(*                run_full_sync / run_delta_sync activations, the          *)
(*                continuous loop, and the store's sync run records;       *)
(*   SpecFetch    fetch_all_records and the fetch loop of                  *)
(*                analyze_relationship_chain;                              *)
(*   SpecExtract  the junction loop of analyze_relationship_chain, record  *)
(*                by record;                                               *)
(*   SpecReport   the junction loop as a function of a table of two        *)
(*                records and of the same records rearranged;              *)
(*   SpecChain    the junction loop followed by the two goal loops.        *)
(* database.py and airtable_sync.py are imported by main.py but are not    *)
(* among the sources; the store operations are modelled from the           *)
(* contract the specification gives for them (section 4.4).                *)
(***************************************************************************)
EXTENDS Integers, Sequences, FiniteSets, TLC

\* ------------------------------------------------------------------ bounds
\* The number of sync run records the store may hold.
MaxRuns == 3

\* The number of pages the remote source serves a table as, and records per page.
MaxPages == 2

MaxPageLen == 2

\* The number of junction records analysed, and the length of a link or lookup field.
MaxRecs == 2

MaxSeqLen == 2

\* ------------------------------------------------------------ sync service
VARIABLES
    records,        \* the store's sync run records; sync_id is the index
    clock,          \* the store's time (stamps started_at / completed_at)
    argv,           \* sys.argv[1] of the running process ("" when absent)
    ppc,            \* position of the process in main / run_once / run_continuous
    exit,           \* how the last process ended ("none" while it runs)
    job,            \* the sync job being executed: "none", "full", "delta"
    jpc,            \* position inside run_full_sync / run_delta_sync
    sync_id,        \* local sync_id (0: not bound, `'sync_id' in locals()` is false)
    last_sync,      \* local last_sync of run_delta_sync
    err,            \* the exception caught by the except clause ("none": none)
    failRaised,     \* fail_sync_record itself raised inside the except clause
    failCalls,      \* history: the fail_sync_record calls of this activation
    transferCalls,  \* history: the arguments of the transfer calls of this activation
    readSeen,       \* history: number of records that existed when the cutoff was read
    orphans,        \* history: sync_ids left running by a process that has ended
    pendingRefresh, \* history: a sync of this process returned and no refresh followed yet
    entryRecords,   \* history: the records that existed when the job was entered
    overlap,        \* history: a job was entered while another was in progress
    healthSeen,     \* history: <<>>, or <<h>>: h the health_check call just made
    onceCalls,      \* history: the calls run_once made in this process, and their ends
    bootLen         \* history: number of records that existed when the process started

syncVars == <<records, clock, argv, ppc, exit, job, jpc, sync_id, last_sync, err,
              failRaised, failCalls, transferCalls, readSeen, orphans, pendingRefresh,
              entryRecords, overlap, healthSeen, onceCalls, bootLen>>

\* ------------------------------------------------- relationship analysis
VARIABLES
    apc,            \* position of analyze_relationship_chain
    ti,             \* index of the table the fetch loop is at
    data,           \* data[name]: the fetched records the analysis reads
    pages,          \* the remote source: record count of each page of the current table
    fpc,            \* position of fetch_all_records
    url,            \* local url: <<>> is None, <<t>> the url with offset t
    all_records,    \* local all_records
    sent,           \* history: the offsets of the requests issued by this call
    reqFailed,      \* history: a request of this call failed
    category_combinations,
    sdg_combinations,
    full_chain_combinations,
    processed,      \* number of junction records the loop has gone through
    expCategory,    \* history: union of the records' category x data-needed products
    expSdg,         \* history: union of the records' SDG x data-needed products
    expChain        \* history: union of the records' three-way products

fetchVars == <<apc, ti, data, pages, fpc, url, all_records, sent, reqFailed>>

extractVars == <<category_combinations, sdg_combinations, full_chain_combinations,
                 processed, expCategory, expSdg, expChain>>

\* ------------------------- the junction loop as a function of its table
VARIABLES
    recA,           \* the first record of data['junct_data_needed']
    recB,           \* the second record of data['junct_data_needed']
    baseline,       \* <<>>, or <<d>>: d the counts returned for the table <<recA, recB>>
    rerun           \* <<>>, or <<d>>: d the counts returned for a rearranged table

reportVars == <<recA, recB, baseline, rerun>>

\* ------------------------------- the loops of the analysis, one after another
VARIABLES
    cpc,            \* the loop analyze_relationship_chain is at, after the fetch
    junct,          \* data['junct_data_needed']
    goals,          \* data['goals']
    theme_goal_pairs,
    goal_sdg_pairs

chainVars == <<cpc, junct, goals, theme_goal_pairs, goal_sdg_pairs>>

analysisVars == <<fetchVars, extractVars, reportVars, chainVars>>

vars == <<syncVars, analysisVars>>

\* Python None as returned by get_last_successful_sync (`not last_sync`).
Absent == 0

\* The sync_type strings passed to the store.
FullType == "airtable_full"
DeltaType == "airtable_delta"

\* ---------------------------------------------------- the relational store
\* start_sync_record: appends a running record and returns its id (the index).
StartSyncRecord(recs, type, now) ==
    Append(recs, [sync_type |-> type, status |-> "running", started_at |-> now,
                  completed_at |-> Absent, error |-> "none"])

\* complete_sync_record / fail_sync_record apply to a running record only.
CanTerminate(recs, id) ==
    id \in 1..Len(recs) /\ recs[id].status = "running"

CompleteSyncRecord(recs, id, now) ==
    [recs EXCEPT ![id].status = "succeeded", ![id].completed_at = now]

FailSyncRecord(recs, id, msg, now) ==
    [recs EXCEPT ![id].status = "failed", ![id].completed_at = now, ![id].error = msg]

SetMax(S) == CHOOSE x \in S : \A y \in S : y <= x

\* get_last_successful_sync: completed_at of the most recent succeeded run of the type.
GetLastSuccessfulSync(recs, type) ==
    LET done == {recs[i].completed_at : i \in {k \in 1..Len(recs) :
                     recs[k].sync_type = type /\ recs[k].status = "succeeded"}}
    IN IF done = {} THEN Absent ELSE SetMax(done)

\* get_last_sync_status: the status of the most recent run, "none" without runs.
GetLastSyncStatus(recs) ==
    IF Len(recs) = 0 THEN "none" ELSE recs[Len(recs)].status

\* run_full_sync calling the transfer before start_sync_record.
FullStepsTransferFirst == <<"transfer", "start", "complete", "log">>

\* --------------------------------------------- run_full_sync / run_delta_sync
\* The statements of the try blocks, in program order.
FullSteps == <<"start", "transfer", "complete", "log">>

DeltaStepsStartFirst == <<"start", "read", "transfer", "complete", "log">>

DeltaSteps == <<"read", "start", "transfer", "complete", "log">>

Steps(j) == IF j = "delta" THEN DeltaSteps ELSE FullSteps

FirstStep(j) == Head(Steps(j))

\* The statement after s; falling off the end of the try block returns.
NextStep(j, s) ==
    LET i == CHOOSE k \in 1..Len(Steps(j)) : Steps(j)[k] = s
    IN IF i = Len(Steps(j)) THEN "returned" ELSE Steps(j)[i + 1]

\* The sync_type a job records, and the type whose cutoff run_delta_sync reads.
JobType(j) == IF j = "delta" THEN DeltaType ELSE FullType

DeltaCutoffTypeFull == FullType

DeltaCutoffType == DeltaType

\* The argument the transfer is called with: sync_all() takes none.
TransferArg(j, local, recs) == IF j = "delta" THEN local ELSE Absent

\* Entering run_full_sync / run_delta_sync: fresh locals.
EnterJob(j) ==
    /\ job' = j
    /\ jpc' = FirstStep(j)
    /\ sync_id' = 0
    /\ last_sync' = Absent
    /\ err' = "none"
    /\ failRaised' = FALSE
    /\ failCalls' = <<>>
    /\ transferCalls' = <<>>
    /\ readSeen' = 0
    /\ entryRecords' = records
    /\ overlap' = (overlap \/ job # "none")

NoJob ==
    /\ job' = "none"
    /\ jpc' = "idle"
    /\ sync_id' = 0
    /\ last_sync' = Absent
    /\ err' = "none"
    /\ failRaised' = FALSE
    /\ failCalls' = <<>>
    /\ transferCalls' = <<>>
    /\ readSeen' = 0
    /\ entryRecords' = <<>>
    /\ UNCHANGED overlap

jobVars == <<job, jpc, sync_id, last_sync, err, failRaised, failCalls, transferCalls,
             readSeen, entryRecords, overlap>>

\* A step that is no health_check call and no step of run_once's own.
NoHealthCall == healthSeen' = <<>>

KeepHistory == NoHealthCall /\ UNCHANGED <<onceCalls, bootLen>>

\* A statement of the try block raises: control goes to the except clause.
Raise(step) ==
    /\ err' = step
    /\ jpc' = "handler"

\* last_sync = self.database.get_last_successful_sync('airtable_delta')
ReadCutoff ==
    /\ UNCHANGED analysisVars
    /\ job # "none" /\ jpc = "read"
    /\ \E ok \in BOOLEAN :
         IF ok
         THEN /\ last_sync' = GetLastSuccessfulSync(records, DeltaCutoffType)
              /\ readSeen' = Len(records)
              /\ jpc' = NextStep(job, "read")
              /\ UNCHANGED err
         ELSE /\ Raise("read")
              /\ UNCHANGED <<last_sync, readSeen>>
    /\ UNCHANGED <<records, clock, argv, ppc, exit, job, sync_id, failRaised, failCalls,
                   transferCalls, orphans, pendingRefresh>>
    /\ UNCHANGED <<entryRecords, overlap>>
    /\ KeepHistory

\* sync_id = self.database.start_sync_record(...)
StartRecord ==
    /\ UNCHANGED analysisVars
    /\ job # "none" /\ jpc = "start"
    /\ \E ok \in BOOLEAN :
         IF ok
         THEN /\ Len(records) < MaxRuns
              /\ records' = StartSyncRecord(records, JobType(job), clock)
              /\ clock' = clock + 1
              /\ sync_id' = Len(records) + 1
              /\ jpc' = NextStep(job, "start")
              /\ UNCHANGED err
         ELSE /\ Raise("start")
              /\ UNCHANGED <<records, clock, sync_id>>
    /\ UNCHANGED <<argv, ppc, exit, job, last_sync, failRaised, failCalls,
                   transferCalls, readSeen, orphans, pendingRefresh>>
    /\ UNCHANGED <<entryRecords, overlap>>
    /\ KeepHistory

\* result = self.airtable_sync.sync_all() / sync_changes_since(last_sync)
Transfer ==
    /\ UNCHANGED analysisVars
    /\ job # "none" /\ jpc = "transfer"
    /\ transferCalls' = Append(transferCalls, TransferArg(job, last_sync, records))
    /\ \E ok \in BOOLEAN :
         IF ok
         THEN jpc' = NextStep(job, "transfer") /\ UNCHANGED err
         ELSE Raise("transfer")
    /\ UNCHANGED <<records, clock, argv, ppc, exit, job, sync_id, last_sync, failRaised,
                   failCalls, readSeen, orphans, pendingRefresh>>
    /\ UNCHANGED <<entryRecords, overlap>>
    /\ KeepHistory

\* self.database.complete_sync_record(sync_id, ...); reading result[...] may raise too.
Complete ==
    /\ UNCHANGED analysisVars
    /\ job # "none" /\ jpc = "complete"
    /\ \E ok \in BOOLEAN :
         IF ok /\ CanTerminate(records, sync_id)
         THEN /\ records' = CompleteSyncRecord(records, sync_id, clock)
              /\ clock' = clock + 1
              /\ jpc' = NextStep(job, "complete")
              /\ UNCHANGED err
         ELSE /\ Raise("complete")
              /\ UNCHANGED <<records, clock>>
    /\ UNCHANGED <<argv, ppc, exit, job, sync_id, last_sync, failRaised, failCalls,
                   transferCalls, readSeen, orphans, pendingRefresh>>
    /\ UNCHANGED <<entryRecords, overlap>>
    /\ KeepHistory

\* logger.info("... completed successfully", **result): the last statement of the try.
LogSuccess ==
    /\ UNCHANGED analysisVars
    /\ job # "none" /\ jpc = "log"
    /\ \E ok \in BOOLEAN :
         IF ok
         THEN jpc' = NextStep(job, "log") /\ UNCHANGED err
         ELSE Raise("log")
    /\ UNCHANGED <<records, clock, argv, ppc, exit, job, sync_id, last_sync, failRaised,
                   failCalls, transferCalls, readSeen, orphans, pendingRefresh>>
    /\ UNCHANGED <<entryRecords, overlap>>
    /\ KeepHistory

\* The handler without its call of fail_sync_record.
HandlerOutcomeNoFail(recs, id, msg, now, dbOk) ==
    [recs |-> recs, calls |-> <<>>, raised |-> FALSE]

\* The handler without the `'sync_id' in locals()` test: fail_sync_record is
\* called whether or not a record exists.
HandlerOutcomeUnguarded(recs, id, msg, now, dbOk) ==
    IF dbOk /\ CanTerminate(recs, id)
    THEN [recs |-> FailSyncRecord(recs, id, msg, now),
          calls |-> <<[id |-> id, msg |-> msg]>>, raised |-> FALSE]
    ELSE [recs |-> recs, calls |-> <<[id |-> id, msg |-> msg]>>, raised |-> TRUE]

\* The handler that swallows nothing but marks every bound record, as the code does.
HandlerOutcome(recs, id, msg, now, dbOk) ==
    IF id = 0
    THEN [recs |-> recs, calls |-> <<>>, raised |-> FALSE]
    ELSE IF dbOk /\ CanTerminate(recs, id)
         THEN [recs |-> FailSyncRecord(recs, id, msg, now),
               calls |-> <<[id |-> id, msg |-> msg]>>, raised |-> FALSE]
         ELSE [recs |-> recs, calls |-> <<[id |-> id, msg |-> msg]>>, raised |-> TRUE]

\* What leaves the except clause: `raise` re-raises (an exception of
\* fail_sync_record propagates in its place).
AfterHandler == "raised"

\* except Exception as e: ...; if 'sync_id' in locals(): fail_sync_record(...); raise
Handler ==
    /\ UNCHANGED analysisVars
    /\ job # "none" /\ jpc = "handler"
    /\ \E dbOk \in BOOLEAN :
         LET out == HandlerOutcome(records, sync_id, err, clock, dbOk)
         IN /\ records' = out.recs
            /\ clock' = IF out.recs # records THEN clock + 1 ELSE clock
            /\ failCalls' = failCalls \o out.calls
            /\ failRaised' = out.raised
    /\ jpc' = AfterHandler
    /\ UNCHANGED <<argv, ppc, exit, job, sync_id, last_sync, err, transferCalls,
                   readSeen, orphans, pendingRefresh>>
    /\ UNCHANGED <<entryRecords, overlap>>
    /\ KeepHistory

\* ------------------------------------------------------------ the process
Modes == {"full", "delta", "views", "health", "", "bogus"}

\* Records the ending process leaves running.
Orphaned == {i \in 1..Len(records) : records[i].status = "running"}

\* The process ends: nothing of it is left but the store.
EndProcess(how) ==
    /\ ppc' = "stopped"
    /\ exit' = how
    /\ orphans' = orphans \cup Orphaned
    /\ pendingRefresh' = FALSE
    /\ NoJob

\* A process is started with some command line.
Boot ==
    /\ UNCHANGED analysisVars
    /\ ppc = "stopped"
    /\ \E m \in Modes : argv' = m
    /\ ppc' = "main"
    /\ exit' = "none"
    /\ bootLen' = Len(records)
    /\ onceCalls' = <<>>
    /\ NoHealthCall
    /\ UNCHANGED <<records, clock, jobVars, orphans, pendingRefresh>>

\* health_check(): three sub-checks; an exception of any of them is caught.
HealthResult(recs, dbOk, apiOk, statusOk) ==
    dbOk /\ apiOk /\ statusOk /\ GetLastSyncStatus(recs) # "failed"

\* What a sub-check call may come to: a true or a false result, or an exception.
SubCheck == {"true", "false", "raises"}

\* A health_check call: what its sub-checks came to, the store it saw, its result.
HealthCall(recs, db, api, statusOk) ==
    [db |-> db, api |-> api, statusOk |-> statusOk, records |-> recs,
     result |-> HealthResult(recs, db # "raises", api # "raises", statusOk)]

\* main(): the dispatch on sys.argv.
MainDispatch ==
    /\ UNCHANGED analysisVars
    /\ ppc = "main"
    /\ CASE argv \in {"full", "delta", "views"} ->
              /\ ppc' = "run_once"
              /\ NoHealthCall
              /\ UNCHANGED <<exit, orphans, pendingRefresh, jobVars>>
         [] argv = "health" ->
              \E db, api \in SubCheck, statusOk \in BOOLEAN :
                  LET h == HealthCall(records, db, api, statusOk)
                  IN /\ healthSeen' = <<h>>
                     /\ EndProcess(IF h.result THEN "health_ok" ELSE "health_failed")
         [] argv = "" ->
              /\ ppc' = "c_health"
              /\ NoHealthCall
              /\ UNCHANGED <<exit, orphans, pendingRefresh, jobVars>>
         [] OTHER -> NoHealthCall /\ EndProcess("usage")
    /\ UNCHANGED <<records, clock, argv, onceCalls, bootLen>>

\* run_once(): the dispatch on sync_type (main passes full, delta or views only).
RunOnce ==
    /\ UNCHANGED analysisVars
    /\ ppc = "run_once"
    /\ CASE argv \in {"full", "delta"} ->
              /\ ppc' = "once_sync"
              /\ EnterJob(argv)
              /\ UNCHANGED <<exit, orphans, pendingRefresh>>
         [] argv = "views" ->
              /\ ppc' = "once_refresh"
              /\ UNCHANGED <<exit, orphans, pendingRefresh, jobVars>>
         [] OTHER -> EndProcess("usage")
    /\ KeepHistory
    /\ UNCHANGED <<records, clock, argv>>

\* run_continuous(): the initial health check.
InitialHealth ==
    /\ UNCHANGED analysisVars
    /\ ppc = "c_health"
    /\ \E db, api \in SubCheck, statusOk \in BOOLEAN :
         LET h == HealthCall(records, db, api, statusOk)
         IN /\ healthSeen' = <<h>>
            /\ IF h.result
               THEN /\ ppc' = "c_initread"
                    /\ UNCHANGED <<exit, orphans, pendingRefresh, jobVars>>
               ELSE EndProcess("health_failed")
    /\ UNCHANGED <<records, clock, argv, onceCalls, bootLen>>

\* run_continuous(): last_sync = get_last_successful_sync('airtable_full') and the
\* test `not last_sync or (datetime.now() - last_sync).days > 1`.
InitialRead ==
    /\ UNCHANGED analysisVars
    /\ ppc = "c_initread"
    /\ \E ok, stale \in BOOLEAN :
         IF ~ok
         THEN EndProcess("read_error")
         ELSE IF GetLastSuccessfulSync(records, FullType) = Absent \/ stale
              THEN /\ ppc' = "c_initsync"
                   /\ EnterJob("full")
                   /\ UNCHANGED <<exit, orphans, pendingRefresh>>
              ELSE /\ ppc' = "loop"
                   /\ UNCHANGED <<exit, orphans, pendingRefresh, jobVars>>
    /\ KeepHistory
    /\ UNCHANGED <<records, clock, argv>>

\* What the caller of run_full_sync / run_delta_sync does when the call ends.
\* In the scheduler loop an exception is logged and the loop goes on.
TickAfterRaise == "loop"

\* run_once calling the refresh whatever the sync call came to.
OnceRefreshAlways == {"returned", "raised"}

\* run_once: the refresh is the statement after the sync call, reached only
\* when that call returned.
OnceRefreshAfter == {"returned"}

JobExit ==
    /\ UNCHANGED analysisVars
    /\ job # "none" /\ jpc \in {"returned", "raised"}
    /\ CASE ppc = "once_sync" ->
              /\ onceCalls' = Append(onceCalls, <<job, jpc>>)
              /\ IF jpc \in OnceRefreshAfter
                 THEN /\ ppc' = "once_refresh"
                      /\ pendingRefresh' = TRUE
                      /\ NoJob
                      /\ UNCHANGED <<exit, orphans>>
                 ELSE EndProcess("job_error")
         [] ppc = "c_initsync" ->
              /\ UNCHANGED onceCalls
              /\ IF jpc = "returned"
                 THEN /\ ppc' = "c_initrefresh"
                      /\ pendingRefresh' = TRUE
                      /\ NoJob
                      /\ UNCHANGED <<exit, orphans>>
                 ELSE EndProcess("job_error")
         [] OTHER ->
              /\ UNCHANGED onceCalls
              /\ IF jpc = "returned" \/ TickAfterRaise = "loop"
                 THEN /\ ppc' = "loop"
                      /\ pendingRefresh' = (pendingRefresh \/ jpc = "returned")
                      /\ NoJob
                      /\ UNCHANGED <<exit, orphans>>
                 ELSE EndProcess("job_error")
    /\ NoHealthCall
    /\ UNCHANGED <<records, clock, argv, bootLen>>

\* self.refresh_materialized_views() after a sync or in mode views.
RefreshViews ==
    /\ UNCHANGED analysisVars
    /\ ppc \in {"once_refresh", "c_initrefresh"}
    /\ \E ok \in BOOLEAN :
         /\ onceCalls' = IF ppc = "once_refresh"
                         THEN Append(onceCalls,
                                     <<"refresh", IF ok THEN "returned" ELSE "raised">>)
                         ELSE onceCalls
         /\ IF ~ok
            THEN EndProcess("refresh_error")
            ELSE IF ppc = "once_refresh"
                 THEN EndProcess("ok")
                 ELSE /\ ppc' = "loop"
                      /\ pendingRefresh' = FALSE
                      /\ UNCHANGED <<exit, orphans, jobVars>>
    /\ NoHealthCall
    /\ UNCHANGED <<records, clock, argv, bootLen>>

\* The jobs setup_scheduler registers.
ScheduledJobs == {"full", "delta", "health"}

\* A scheduler that runs a due job while the previous one is still running.
RunPendingWhileRunning == {"loop", "tick"}

\* Where schedule.run_pending() is called: in the loop of run_continuous only,
\* and it returns when the jobs it called have returned.
RunPendingAt == {"loop"}

\* schedule.run_pending(): a due sync job is run.
TickSync ==
    /\ UNCHANGED analysisVars
    /\ ppc \in RunPendingAt
    /\ \E j \in ScheduledJobs \ {"health"} :
         /\ ppc' = "tick"
         /\ EnterJob(j)
    /\ KeepHistory
    /\ UNCHANGED <<records, clock, argv, exit, orphans, pendingRefresh>>

\* schedule.run_pending(): the due health check is run, its result is dropped.
TickHealth ==
    /\ UNCHANGED analysisVars
    /\ ppc \in RunPendingAt
    /\ "health" \in ScheduledJobs
    /\ \E db, api \in SubCheck, statusOk \in BOOLEAN :
         healthSeen' = <<HealthCall(records, db, api, statusOk)>>
    /\ UNCHANGED <<records, clock, argv, ppc, exit, orphans, pendingRefresh, jobVars,
                   onceCalls, bootLen>>

\* A shutdown signal (KeyboardInterrupt is not an Exception: no except clause of
\* the sync jobs catches it) or a crash ends the process wherever it is; only
\* the loop of run_continuous catches KeyboardInterrupt, and breaks.
Interrupt ==
    /\ UNCHANGED analysisVars
    /\ ppc # "stopped"
    /\ EndProcess(IF ppc \in {"loop", "tick"} THEN "signal" ELSE "killed")
    /\ KeepHistory
    /\ UNCHANGED <<records, clock, argv>>

\* ------------------------------------------------------ fetch_all_records
\* The tables dictionary of analyze_relationship_chain, in insertion order.
Tables == <<"categories", "themes", "goals", "key_dimensions", "core_metric_sets",
            "key_indicators", "data_needed", "sdgs", "junct_key_dims",
            "junct_core_sets", "junct_indicators", "junct_data_needed">>

\* The tables whose records the analysis reads; of the others it prints the
\* record count only, and the model keeps no copy of them.
UsedTables == {"goals", "junct_data_needed"}

\* No continuation token: the first url carries none, the last page returns none.
NoToken == 0

\* The remote source serves a table as pages; page p holds the records
\* <<p, 1>> .. <<p, n>> (the fetcher never looks inside a record).
PageRecords(p, n) == [k \in 1..n |-> <<p, k>>]

\* The continuation token returned with page p, absent on the last page.
Token(pp, p) == IF p < Len(pp) THEN p ELSE NoToken

\* The page a request with the given offset is answered with.
PageOf(offset) == offset + 1

\* The sources a table may be: 1..MaxPages pages of 0..MaxPageLen records.
PageSources == UNION {[1..k -> 0..MaxPageLen] : k \in 1..MaxPages}

\* The body of a response: a page on success, an error object otherwise
\* (no "records", no "offset": data.get returns [] and None).
Body(pp, offset, outcome) ==
    IF outcome = "ok"
    THEN [records |-> PageRecords(PageOf(offset), pp[PageOf(offset)]),
          offset |-> Token(pp, PageOf(offset))]
    ELSE [records |-> <<>>, offset |-> NoToken]

\* What a request may come to: a page, a non-success status, a transport error.
Outcomes == {"ok", "http_error", "transport_error"}

\* response.raise_for_status()
RaiseForStatusNever(outcome) == FALSE

RaiseForStatus(outcome) == outcome = "http_error"

\* all_records.extend(records)
ExtendReplacing(all, recs) == recs

Extend(all, recs) == all \o recs

\* `if offset:` ... url with the offset, else None
NextUrl(offset) == IF offset # NoToken THEN <<offset>> ELSE <<>>

FetchLocalsIdle ==
    /\ pages' = <<>>
    /\ url' = <<>>
    /\ all_records' = <<>>
    /\ sent' = <<>>
    /\ reqFailed' = FALSE

\* data[name] = fetch_all_records(table_id): the call is entered.
BeginFetch ==
    /\ apc = "fetching" /\ fpc = "idle"
    /\ \E pp \in PageSources : pages' = pp
    /\ url' = <<NoToken>>
    /\ all_records' = <<>>
    /\ sent' = <<>>
    /\ reqFailed' = FALSE
    /\ fpc' = "loop"
    /\ UNCHANGED <<apc, ti, data, extractVars, syncVars, reportVars, chainVars>>

\* One turn of `while url:`: the request, raise_for_status, extend, next url.
Request ==
    /\ fpc = "loop" /\ url # <<>>
    /\ sent' = Append(sent, url[1])
    /\ \E outcome \in Outcomes :
         /\ reqFailed' = (reqFailed \/ outcome # "ok")
         /\ IF outcome = "transport_error" \/ RaiseForStatus(outcome)
            THEN /\ fpc' = "raised"
                 /\ UNCHANGED <<url, all_records>>
            ELSE LET body == Body(pages, url[1], outcome)
                 IN /\ all_records' = Extend(all_records, body.records)
                    /\ url' = NextUrl(body.offset)
                    /\ fpc' = "loop"
    /\ UNCHANGED <<apc, ti, data, pages, extractVars, syncVars, reportVars, chainVars>>

\* `while url:` ends, return all_records; the caller stores it under the name.
ReturnRecords ==
    /\ fpc = "loop" /\ url = <<>>
    /\ fpc' = "returned"
    /\ UNCHANGED <<apc, ti, data, pages, url, all_records, sent, reqFailed,
                   extractVars, syncVars, reportVars, chainVars>>

\* data[name] = <the list returned>, and the for loop moves to the next table.
StoreTable ==
    /\ apc = "fetching" /\ fpc = "returned"
    /\ data' = IF Tables[ti] \in UsedTables
               THEN data @@ (Tables[ti] :> all_records)
               ELSE data
    /\ ti' = ti + 1
    /\ apc' = IF ti = Len(Tables) THEN "extract" ELSE "fetching"
    /\ fpc' = "idle"
    /\ FetchLocalsIdle
    /\ UNCHANGED <<extractVars, syncVars, reportVars, chainVars>>

\* An exception of fetch_all_records leaves analyze_relationship_chain too; the
\* script's `except Exception` prints it.
FetchAbort ==
    /\ apc = "fetching" /\ fpc = "raised"
    /\ apc' = "failed"
    /\ UNCHANGED <<ti, data, pages, fpc, url, all_records, sent, reqFailed,
                   extractVars, syncVars, reportVars, chainVars>>

FetchIdle ==
    /\ apc = "idle"
    /\ ti = 1
    /\ data = <<>>
    /\ pages = <<>>
    /\ fpc = "idle"
    /\ url = <<>>
    /\ all_records = <<>>
    /\ sent = <<>>
    /\ reqFailed = FALSE

FetchInit ==
    /\ apc = "fetching"
    /\ ti = 1
    /\ data = <<>>
    /\ pages = <<>>
    /\ fpc = "idle"
    /\ url = <<>>
    /\ all_records = <<>>
    /\ sent = <<>>
    /\ reqFailed = FALSE

\* ------------------------------------- the loops over the junction records
CategoryIds == {"C1", "C2"}
SdgIds == {"S1", "S2"}
DataIds == {"D1", "D2"}

\* The field names of a junction record (the long lookup names, abbreviated).
CategoryField == "IRIS Impact Category (from ...)"
SdgField == "SDG (from ...)"
DataField == "IRIS Data Needed"

SeqsUpTo(S, n) == UNION {[1..k -> S] : k \in 0..n}

\* A field of a record: <<>> when the key is missing, <<v>> when it holds v.
Optional(S) == {<<>>} \cup {<<v>> : v \in S}

FieldEntry(key, opt) == IF opt = <<>> THEN <<>> ELSE key :> opt[1]

\* The values `fields` may take: each field present with a sequence, or missing.
JunctionFields ==
    {FieldEntry(CategoryField, c) @@ FieldEntry(SdgField, x) @@ FieldEntry(DataField, d) :
        c \in Optional(SeqsUpTo(CategoryIds, MaxSeqLen)),
        x \in Optional(SeqsUpTo(SdgIds, MaxSeqLen)),
        d \in Optional(SeqsUpTo(DataIds, MaxSeqLen))}

\* dict.get(key, default)
Get(d, key, default) == IF key \in DOMAIN d THEN d[key] ELSE default

Range(q) == {q[i] : i \in 1..Len(q)}

\* for b in bs: acc.add((a, b))
RECURSIVE InnerPairs(_, _, _)
InnerPairs(acc, a, bs) ==
    IF bs = <<>> THEN acc
    ELSE InnerPairs(acc \cup {<<a, Head(bs)>>}, a, Tail(bs))

\* for a, b in zip(as, bs): acc.add((a, b))
RECURSIVE AddPairsZip(_, _, _)
AddPairsZip(acc, as, bs) ==
    IF as = <<>> \/ bs = <<>> THEN acc
    ELSE AddPairsZip(acc \cup {<<Head(as), Head(bs)>>}, Tail(as), Tail(bs))

\* for a in as: for b in bs: acc.add((a, b))
RECURSIVE AddPairs(_, _, _)
AddPairs(acc, as, bs) ==
    IF as = <<>> THEN acc
    ELSE AddPairs(InnerPairs(acc, Head(as), bs), Tail(as), bs)

\* The innermost loop adding (sdg, category, data_item).
RECURSIVE InnerTripletsSdgFirst(_, _, _, _)
InnerTripletsSdgFirst(acc, a, b, ds) ==
    IF ds = <<>> THEN acc
    ELSE InnerTripletsSdgFirst(acc \cup {<<b, a, Head(ds)>>}, a, b, Tail(ds))

\* for d in ds: acc.add((a, b, d))
RECURSIVE InnerTriplets(_, _, _, _)
InnerTriplets(acc, a, b, ds) ==
    IF ds = <<>> THEN acc
    ELSE InnerTriplets(acc \cup {<<a, b, Head(ds)>>}, a, b, Tail(ds))

\* The middle loop taking the first SDG only.
MiddleTripletsFirstSdg(acc, a, bs, ds) ==
    IF bs = <<>> THEN acc ELSE InnerTriplets(acc, a, Head(bs), ds)

\* for b in bs: for d in ds: acc.add((a, b, d))
RECURSIVE MiddleTriplets(_, _, _, _)
MiddleTriplets(acc, a, bs, ds) ==
    IF bs = <<>> THEN acc
    ELSE MiddleTriplets(InnerTriplets(acc, a, Head(bs), ds), a, Tail(bs), ds)

\* for a in as: for b in bs: for d in ds: acc.add((a, b, d))
RECURSIVE AddTriplets(_, _, _, _)
AddTriplets(acc, as, bs, ds) ==
    IF as = <<>> THEN acc
    ELSE AddTriplets(MiddleTriplets(acc, Head(as), bs, ds), Tail(as), bs, ds)

\* One turn of `for record in data['junct_data_needed']`, for any record the
\* table may hold (fields = record.get('fields', {}): hasFields FALSE is a
\* record without the key).
ProcessRecord ==
    /\ processed < MaxRecs
    /\ \E hasFields \in BOOLEAN : \E f \in JunctionFields :
         /\ hasFields \/ f = <<>>
         /\ LET fields == IF hasFields THEN f ELSE <<>>
                categories == Get(fields, CategoryField, <<>>)
                sdgs == Get(fields, SdgField, <<>>)
                data_needed == Get(fields, DataField, <<>>)
            IN /\ category_combinations' =
                      AddPairs(category_combinations, categories, data_needed)
               /\ sdg_combinations' = AddPairs(sdg_combinations, sdgs, data_needed)
               /\ full_chain_combinations' =
                      AddTriplets(full_chain_combinations, categories, sdgs, data_needed)
               /\ expCategory' = expCategory \cup
                      {<<c, d>> : c \in Range(categories), d \in Range(data_needed)}
               /\ expSdg' = expSdg \cup
                      {<<x, d>> : x \in Range(sdgs), d \in Range(data_needed)}
               /\ expChain' = expChain \cup
                      {<<c, x, d>> : c \in Range(categories), x \in Range(sdgs),
                                     d \in Range(data_needed)}
    /\ processed' = processed + 1
    /\ UNCHANGED <<fetchVars, syncVars, reportVars, chainVars>>

ExtractInit ==
    /\ category_combinations = {}
    /\ sdg_combinations = {}
    /\ full_chain_combinations = {}
    /\ processed = 0
    /\ expCategory = {}
    /\ expSdg = {}
    /\ expChain = {}

\* ------------------------------ the junction loop over a whole table
\* The three sets before the loop: set().
EmptySets == [category |-> {}, sdg |-> {}, chain |-> {}]

\* The loop body with the three sets created inside the loop.
LoopBodyFreshSets(acc, record) ==
    LET fields == Get(record, "fields", <<>>)
        categories == Get(fields, CategoryField, <<>>)
        sdgs == Get(fields, SdgField, <<>>)
        data_needed == Get(fields, DataField, <<>>)
    IN [category |-> AddPairs({}, categories, data_needed),
        sdg |-> AddPairs({}, sdgs, data_needed),
        chain |-> AddTriplets({}, categories, sdgs, data_needed)]

\* One turn of `for record in data['junct_data_needed']` on the three sets.
LoopBody(acc, record) ==
    LET fields == Get(record, "fields", <<>>)
        categories == Get(fields, CategoryField, <<>>)
        sdgs == Get(fields, SdgField, <<>>)
        data_needed == Get(fields, DataField, <<>>)
    IN [category |-> AddPairs(acc.category, categories, data_needed),
        sdg |-> AddPairs(acc.sdg, sdgs, data_needed),
        chain |-> AddTriplets(acc.chain, categories, sdgs, data_needed)]

\* for record in data['junct_data_needed']: ...
RECURSIVE JunctionLoop(_, _)
JunctionLoop(acc, table) ==
    IF table = <<>> THEN acc
    ELSE JunctionLoop(LoopBody(acc, Head(table)), Tail(table))

\* The entries of the returned dict that come from the junction table.
Report(table, sets) ==
    [category_data_pairs |-> Cardinality(sets.category),
     sdg_data_pairs |-> Cardinality(sets.sdg),
     full_chain_triplets |-> Cardinality(sets.chain),
     total_data_needed_records |-> Len(table)]

\* The entries that count pairs and triplets.
TupleCounts(d) == <<d.category_data_pairs, d.sdg_data_pairs, d.full_chain_triplets>>

\* The junction records the table is drawn from: with or without 'fields',
\* each field missing or a sequence; two categories, one SDG, one data item.
TableRecords ==
    {<<>>} \cup
    {"fields" :> (FieldEntry(CategoryField, c) @@ FieldEntry(SdgField, x)
                  @@ FieldEntry(DataField, d)) :
        c \in Optional(SeqsUpTo(CategoryIds, MaxSeqLen)),
        x \in Optional(SeqsUpTo({"S1"}, MaxSeqLen)),
        d \in Optional(SeqsUpTo({"D1"}, MaxSeqLen))}

\* The same records in another order, or with a record held twice.
Rearranged(a, b) == {<<b, a>>, <<a, a, b>>, <<a, b, b>>, <<a, b, a>>}

ReportIdle ==
    /\ recA = <<>>
    /\ recB = <<>>
    /\ baseline = <<>>
    /\ rerun = <<>>

ReportInit ==
    /\ recA \in TableRecords
    /\ recB \in TableRecords
    /\ baseline = <<>>
    /\ rerun = <<>>

\* The analysis of the table <<recA, recB>>.
AnalyzeTable ==
    /\ baseline = <<>>
    /\ baseline' = <<Report(<<recA, recB>>, JunctionLoop(EmptySets, <<recA, recB>>))>>
    /\ UNCHANGED <<recA, recB, rerun, syncVars, fetchVars, extractVars, chainVars>>

\* The analysis of a table holding the same records rearranged.
AnalyzeRearranged ==
    /\ baseline # <<>> /\ rerun = <<>>
    /\ \E table \in Rearranged(recA, recB) :
         rerun' = <<Report(table, JunctionLoop(EmptySets, table))>>
    /\ UNCHANGED <<recA, recB, baseline, syncVars, fetchVars, extractVars, chainVars>>

\* ------------------------------------------- the loops over the goal records
\* The link fields of a goal record.
ThemeField == "IRIS Impact Themes"
GoalSdgField == "SDG"

\* The goal records with a given id: without 'fields', or with each link
\* field missing or a sequence; one theme, one SDG.
GoalRecords(id) ==
    {"id" :> id} \cup
    {("id" :> id) @@ ("fields" :> (FieldEntry(ThemeField, t) @@ FieldEntry(GoalSdgField, x))) :
        t \in Optional(SeqsUpTo({"T1"}, MaxSeqLen)),
        x \in Optional(SeqsUpTo({"S1"}, MaxSeqLen))}

\* The goals table: no record, one, or two (ids are unique within a table).
GoalTables ==
    {<<>>} \cup {<<a>> : a \in GoalRecords("G1")}
           \cup {<<a, b>> : a \in GoalRecords("G1"), b \in GoalRecords("G2")}

\* for theme_id in themes: theme_goal_pairs.add((goal_id, theme_id))
RECURSIVE AddThemesGoalFirst(_, _, _)
AddThemesGoalFirst(acc, themes, goal_id) ==
    IF themes = <<>> THEN acc
    ELSE AddThemesGoalFirst(acc \cup {<<goal_id, Head(themes)>>}, Tail(themes), goal_id)

\* for theme_id in themes: theme_goal_pairs.add((theme_id, goal_id))
RECURSIVE AddThemes(_, _, _)
AddThemes(acc, themes, goal_id) ==
    IF themes = <<>> THEN acc
    ELSE AddThemes(acc \cup {<<Head(themes), goal_id>>}, Tail(themes), goal_id)

\* for record in data['goals']: goal_id = record['id']; themes = ...; ...
RECURSIVE ThemeGoalLoop(_, _)
ThemeGoalLoop(acc, table) ==
    IF table = <<>> THEN acc
    ELSE LET record == Head(table)
             goal_id == record["id"]
             themes == Get(Get(record, "fields", <<>>), ThemeField, <<>>)
         IN ThemeGoalLoop(AddThemes(acc, themes, goal_id), Tail(table))

\* for sdg_id in sdgs: goal_sdg_pairs.add((goal_id, sdg_id))
RECURSIVE AddGoalSdgs(_, _, _)
AddGoalSdgs(acc, goal_id, sdgs) ==
    IF sdgs = <<>> THEN acc
    ELSE AddGoalSdgs(acc \cup {<<goal_id, Head(sdgs)>>}, goal_id, Tail(sdgs))

\* The second loop without its own `goal_id = record['id']`: goal_id is what
\* the loop before left in it, the id of the last goal.
GoalSdgLoopStaleId(acc, table) ==
    IF table = <<>> THEN acc
    ELSE acc \cup {<<table[Len(table)]["id"], x>> :
                      x \in UNION {Range(Get(Get(table[i], "fields", <<>>), GoalSdgField, <<>>)) :
                                       i \in 1..Len(table)}}

\* for record in data['goals']: goal_id = record['id']; sdgs = ...; ...
RECURSIVE GoalSdgLoop(_, _)
GoalSdgLoop(acc, table) ==
    IF table = <<>> THEN acc
    ELSE LET record == Head(table)
             goal_id == record["id"]
             sdgs == Get(Get(record, "fields", <<>>), GoalSdgField, <<>>)
         IN GoalSdgLoop(AddGoalSdgs(acc, goal_id, sdgs), Tail(table))

ChainIdle ==
    /\ cpc = "idle"
    /\ junct = <<>>
    /\ goals = <<>>
    /\ theme_goal_pairs = {}
    /\ goal_sdg_pairs = {}

ChainInit ==
    /\ cpc = "junction"
    /\ junct = <<>>
    /\ goals = <<>>
    /\ theme_goal_pairs = {}
    /\ goal_sdg_pairs = {}

\* The loop over data['junct_data_needed'], the table holding one record.
JunctionStage ==
    /\ cpc = "junction"
    /\ \E record \in TableRecords :
         LET sets == JunctionLoop(EmptySets, <<record>>)
         IN /\ junct' = <<record>>
            /\ category_combinations' = sets.category
            /\ sdg_combinations' = sets.sdg
            /\ full_chain_combinations' = sets.chain
    /\ cpc' = "themes"
    /\ UNCHANGED <<goals, theme_goal_pairs, goal_sdg_pairs, processed, expCategory,
                   expSdg, expChain, syncVars, fetchVars, reportVars>>

\* theme_goal_pairs = set() and the first loop over data['goals'].
ThemeStage ==
    /\ cpc = "themes"
    /\ \E table \in GoalTables :
         /\ goals' = table
         /\ theme_goal_pairs' = ThemeGoalLoop({}, table)
    /\ cpc' = "sdgs"
    /\ UNCHANGED <<junct, goal_sdg_pairs, extractVars, syncVars, fetchVars, reportVars>>

\* goal_sdg_pairs = set() and the second loop over data['goals'].
SdgStage ==
    /\ cpc = "sdgs"
    /\ goal_sdg_pairs' = GoalSdgLoop({}, goals)
    /\ cpc' = "done"
    /\ UNCHANGED <<junct, goals, theme_goal_pairs, extractVars, syncVars, fetchVars,
                   reportVars>>

SyncInit ==
    /\ records = <<>>
    /\ clock = 1
    /\ argv = ""
    /\ ppc = "stopped"
    /\ exit = "none"
    /\ job = "none"
    /\ jpc = "idle"
    /\ sync_id = 0
    /\ last_sync = Absent
    /\ err = "none"
    /\ failRaised = FALSE
    /\ failCalls = <<>>
    /\ transferCalls = <<>>
    /\ readSeen = 0
    /\ orphans = {}
    /\ pendingRefresh = FALSE
    /\ entryRecords = <<>>
    /\ overlap = FALSE
    /\ healthSeen = <<>>
    /\ onceCalls = <<>>
    /\ bootLen = 0

Init == SyncInit /\ FetchIdle /\ ExtractInit /\ ReportIdle /\ ChainIdle

Next ==
    \/ Boot
    \/ MainDispatch
    \/ RunOnce
    \/ InitialHealth
    \/ InitialRead
    \/ ReadCutoff
    \/ StartRecord
    \/ Transfer
    \/ Complete
    \/ LogSuccess
    \/ Handler
    \/ JobExit
    \/ RefreshViews
    \/ TickSync
    \/ TickHealth
    \/ Interrupt

Spec == Init /\ [][Next]_vars

\* The analysis script fetching its tables.
InitFetch == SyncInit /\ FetchInit /\ ExtractInit /\ ReportIdle /\ ChainIdle

NextFetch ==
    \/ BeginFetch
    \/ Request
    \/ ReturnRecords
    \/ StoreTable
    \/ FetchAbort

SpecFetch == InitFetch /\ [][NextFetch]_vars

\* The analysis script going through the junction records.
InitExtract == SyncInit /\ FetchIdle /\ ExtractInit /\ ReportIdle /\ ChainIdle

NextExtract == ProcessRecord

SpecExtract == InitExtract /\ [][NextExtract]_vars

\* The junction loop run on a table of two records and on its rearrangements.
InitReport == SyncInit /\ FetchIdle /\ ExtractInit /\ ReportInit /\ ChainIdle

NextReport ==
    \/ AnalyzeTable
    \/ AnalyzeRearranged

SpecReport == InitReport /\ [][NextReport]_vars

\* The analysis after the fetch: the junction loop, then the two goal loops.
InitChain == SyncInit /\ FetchIdle /\ ExtractInit /\ ReportIdle /\ ChainInit

NextChain ==
    \/ JunctionStage
    \/ ThemeStage
    \/ SdgStage

SpecChain == InitChain /\ [][NextChain]_vars

\* The exit status of a process that ended the given way: an uncaught exception
\* and sys.exit(1) are non-zero, the break out of the loop returns from main.
ExitCode(how) == IF how \in {"ok", "health_ok", "signal"} THEN "zero" ELSE "nonzero"

\* ------------------------------------------------------------------ claims
\* The succeeded delta runs other than the current activation's own record.
PriorDelta ==
    {i \in 1..Len(records) : /\ i # sync_id
                             /\ records[i].sync_type = DeltaType
                             /\ records[i].status = "succeeded"}

\* C1: once complete_sync_record has been applied to a sync_id, fail_sync_record
\* is never invoked on that sync_id: no call of fail_sync_record names a record
\* that is succeeded.
C1_NoFailAfterComplete ==
    \A i \in 1..Len(failCalls) : records[failCalls[i].id].status # "succeeded"

\* C2 (as stated): whenever a sync job exits after any of its steps raised, the
\* invocation has a run record with status failed carrying the error text, and
\* the exception reaches the caller.
C2_FailedRecordForEveryError ==
    /\ (jpc = "returned" => err = "none")
    /\ (jpc = "raised" =>
          /\ sync_id # 0
          /\ records[sync_id].status = "failed"
          /\ records[sync_id].error = err)

\* C2 (amended): a job in which a step raised never returns normally; when the
\* transfer or complete_sync_record raised, fail_sync_record was invoked exactly
\* once, on the run's own sync_id with the error text, and unless that call
\* itself raised the record is failed with that text; when reading the cutoff
\* or start_sync_record raised there is no record of the invocation and
\* fail_sync_record was not invoked.
C2_ErrorSurfaces ==
    /\ (jpc = "returned" => err = "none")
    /\ (jpc = "raised" =>
          /\ err # "none"
          /\ (err \in {"transfer", "complete"} =>
                /\ sync_id # 0
                /\ failCalls = <<[id |-> sync_id, msg |-> err]>>
                /\ (~failRaised =>
                      /\ records[sync_id].status = "failed"
                      /\ records[sync_id].error = err))
          /\ (err \in {"read", "start"} => sync_id = 0 /\ failCalls = <<>>))

\* C2 witness: the transfer raised and the run's record was marked failed.
C2_Witness ==
    /\ jpc = "raised" /\ err = "transfer" /\ ~failRaised
    /\ records[sync_id].status = "failed"

\* C3: whenever a cutoff is about to be read (get_last_successful_sync is the
\* next statement), every record left running by an ended process has been
\* marked failed.
C3_OrphansFailedBeforeCutoff ==
    (jpc = "read" \/ ppc = "c_initread") =>
        \A i \in orphans : records[i].status # "running"

\* C6: the cutoff a delta run passes to sync_changes_since is the completed_at
\* of the latest succeeded delta run that finished before it, and absent when
\* no delta run has succeeded; failed and full runs never supply it.
C6_DeltaCutoff ==
    (job = "delta" /\ transferCalls # <<>>) =>
        IF PriorDelta = {}
        THEN transferCalls[1] = Absent
        ELSE /\ \E i \in PriorDelta : records[i].completed_at = transferCalls[1]
             /\ \A k \in PriorDelta : records[k].completed_at <= transferCalls[1]

\* C6 witness: after succeeded delta runs at T1 < T2, a delta run calls the
\* transfer with T2.
C6_Witness ==
    /\ job = "delta" /\ transferCalls # <<>>
    /\ \E i, k \in PriorDelta :
         /\ records[i].completed_at < records[k].completed_at
         /\ transferCalls[1] = records[k].completed_at

\* C7: the cutoff a delta run passes to the transfer was read before the run's
\* record was created, is the value that read returned (the latest succeeded
\* delta run among the records that existed then), and is never the run's own
\* completion time.
C7_CutoffReadBeforeStart ==
    (job = "delta" /\ transferCalls # <<>>) =>
        /\ readSeen < sync_id
        /\ sync_id = readSeen + 1
        /\ transferCalls[1] = last_sync
        /\ \A i \in PriorDelta : i <= readSeen
        /\ transferCalls[1] # records[sync_id].completed_at \/ records[sync_id].status = "running"

\* C7 witness: a delta run that used a real cutoff has itself succeeded.
C7_Witness ==
    /\ job = "delta" /\ transferCalls # <<>> /\ transferCalls[1] # Absent
    /\ records[sync_id].status = "succeeded"

\* C8: in continuous mode (no argument) the failure of a sync job never ends
\* the process.
C8_JobFailureKeepsRunning ==
    ~(argv = "" /\ ppc = "stopped" /\ exit = "job_error")

\* C9: a sync job starts only when every sync of the process that returned
\* before it has been followed by refresh_materialized_views.
C9_RefreshAfterEverySync ==
    (job # "none" /\ jpc = FirstStep(job)) => ~pendingRefresh

\* The records of pages p, p+1, ... of a source, in arrival order.
RECURSIVE PagesFrom(_, _)
PagesFrom(pp, p) ==
    IF p > Len(pp) THEN <<>> ELSE PageRecords(p, pp[p]) \o PagesFrom(pp, p + 1)

\* C4: after any number of junction records, the category-data set is exactly
\* the union of the records' category x data-needed cross-products and the
\* SDG-data set the union of their SDG x data-needed cross-products (an empty
\* or missing sequence gives an empty product).
C4_CrossProduct ==
    /\ category_combinations = expCategory
    /\ sdg_combinations = expSdg

\* C4 witness: one record with categories C1, C2 and data-needed D1 has been
\* processed and gave exactly (C1, D1) and (C2, D1).
C4_Witness ==
    /\ processed = 1
    /\ category_combinations = {<<"C1", "D1">>, <<"C2", "D1">>}

\* C5: a fetch never issues more requests than the source has pages, and when
\* it returns it has issued one request per page, the first without a token
\* and each later one with the token of the previous page, and returns the
\* pages' records concatenated in arrival order, none dropped or repeated.
C5_PaginationComplete ==
    /\ Len(sent) <= Len(pages)
    /\ fpc = "returned" =>
          /\ Len(sent) = Len(pages)
          /\ \A i \in 1..Len(sent) :
                sent[i] = IF i = 1 THEN NoToken ELSE Token(pages, i - 1)
          /\ all_records = PagesFrom(pages, 1)
          /\ \A i, k \in 1..Len(all_records) :
                all_records[i] = all_records[k] => i = k

\* C5 witness: a fetch of a two-page source has returned more than two records.
C5_Witness ==
    /\ fpc = "returned"
    /\ Len(pages) > 1
    /\ Len(all_records) > 2

\* C10: once a page request of a fetch has failed, the call has raised: it
\* never returns a list, nothing is stored for the table, and the analysis
\* never reaches the extraction.
C10_FailedRequestAborts ==
    reqFailed =>
        /\ fpc = "raised"
        /\ apc \in {"fetching", "failed"}
        /\ Tables[ti] \notin DOMAIN data

\* C10 witness: the request for the second page of a table the extraction
\* reads has failed after the first page delivered records, and the analysis
\* has ended with the error.
C10_Witness ==
    /\ reqFailed /\ apc = "failed"
    /\ Tables[ti] \in UsedTables
    /\ Len(sent) > 1
    /\ all_records # <<>>

\* The tuples one junction record implies.
ImpliedCategory(record) ==
    LET fields == Get(record, "fields", <<>>)
    IN {<<c, d>> : c \in Range(Get(fields, CategoryField, <<>>)),
                   d \in Range(Get(fields, DataField, <<>>))}

ImpliedSdg(record) ==
    LET fields == Get(record, "fields", <<>>)
    IN {<<x, d>> : x \in Range(Get(fields, SdgField, <<>>)),
                   d \in Range(Get(fields, DataField, <<>>))}

ImpliedChain(record) ==
    LET fields == Get(record, "fields", <<>>)
    IN {<<c, x, d>> : c \in Range(Get(fields, CategoryField, <<>>)),
                      x \in Range(Get(fields, SdgField, <<>>)),
                      d \in Range(Get(fields, DataField, <<>>))}

\* C11: the reported pair and triplet counts depend only on the set of distinct
\* tuples the junction records imply: each count is the number of distinct
\* tuples implied by the two records, and a table holding the same records in
\* another order or with a record duplicated yields the same three counts.
C11_CountsDependOnTupleSetOnly ==
    /\ baseline # <<>> =>
          TupleCounts(baseline[1]) =
              <<Cardinality(ImpliedCategory(recA) \cup ImpliedCategory(recB)),
                Cardinality(ImpliedSdg(recA) \cup ImpliedSdg(recB)),
                Cardinality(ImpliedChain(recA) \cup ImpliedChain(recB))>>
    /\ rerun # <<>> => TupleCounts(rerun[1]) = TupleCounts(baseline[1])

\* Two distinct records both imply (C1, D1) and nothing else of that relation;
\* the table with one of them held twice was analysed too: one pair each time.
C11_Witness ==
    /\ recA # recB
    /\ ImpliedCategory(recA) = {<<"C1", "D1">>}
    /\ ImpliedCategory(recB) = {<<"C1", "D1">>}
    /\ baseline # <<>> /\ baseline[1].category_data_pairs = 1
    /\ rerun # <<>> /\ rerun[1].total_data_needed_records = 3
    /\ rerun[1].category_data_pairs = 1

\* C12: the full-chain triplet set is the union, over the junction records, of
\* categories x SDGs x data-needed items of the record: a record contributes
\* one triplet per combination of its three sequences and none when any of the
\* three is empty or missing.
C12_TripletComposition == full_chain_combinations = expChain

\* One record with categories [C1], SDGs [S1, S2] and data-needed [D1] was
\* processed: exactly (C1, S1, D1) and (C1, S2, D1).
C12_Witness ==
    /\ processed = 1
    /\ category_combinations = {<<"C1", "D1">>}
    /\ sdg_combinations = {<<"S1", "D1">>, <<"S2", "D1">>}
    /\ full_chain_combinations = {<<"C1", "S1", "D1">>, <<"C1", "S2", "D1">>}

\* C13: health_check returns true only if all three sub-checks pass (the store's
\* check and the remote API's check give a true result, the last run is not
\* failed), returns false when any of them fails by a false result or by an
\* exception, and leaves the sync run records as they were.
C13_HealthCheckAllSubChecks ==
    healthSeen # <<>> =>
        LET h == healthSeen[1]
        IN /\ h.result = (/\ h.db = "true"
                          /\ h.api = "true"
                          /\ h.statusOk
                          /\ GetLastSyncStatus(h.records) # "failed")
           /\ records = h.records

\* C14: within one service process no job is entered while another is in
\* progress: a sync job is being executed only inside the call the process is
\* blocked on, and no job was ever entered before the previous one had ended.
C14_SingleFlight ==
    /\ ~overlap
    /\ (job # "none" => ppc \in {"once_sync", "c_initsync", "tick"})

\* A scheduled delta sync is under way, with its record running, after an
\* earlier sync job of the same process has returned.
C14_Witness ==
    /\ ppc = "tick" /\ job = "delta" /\ jpc = "transfer"
    /\ sync_id # 0 /\ records[sync_id].status = "running"
    /\ pendingRefresh
    /\ ~overlap

\* The calls run_once makes when nothing fails, for a sync mode.
OnceSuccess(mode) == <<<<mode, "returned">>, <<"refresh", "returned">>>>

\* C15: a one-shot process that has ended (other than by a signal) has, in mode
\* full or delta, run that sync once and then, only if the sync returned, the
\* refresh once, and exited zero exactly when both returned; in mode views it
\* has run the refresh alone; with an unknown mode it has run nothing, created
\* no run record and exited non-zero.
C15_OneShotModes ==
    (ppc = "stopped" /\ exit \notin {"none", "signal", "killed"}) =>
        /\ argv \in {"full", "delta"} =>
              /\ onceCalls \in {<<<<argv, "raised">>>>,
                                <<<<argv, "returned">>, <<"refresh", "raised">>>>,
                                OnceSuccess(argv)}
              /\ (ExitCode(exit) = "zero") = (onceCalls = OnceSuccess(argv))
        /\ argv = "views" =>
              /\ onceCalls \in {<<<<"refresh", "returned">>>>, <<<<"refresh", "raised">>>>}
              /\ (ExitCode(exit) = "zero") = (onceCalls = <<<<"refresh", "returned">>>>)
        /\ argv \notin {"full", "delta", "views", "health", ""} =>
              /\ onceCalls = <<>>
              /\ Len(records) = bootLen
              /\ ExitCode(exit) = "nonzero"

\* A process in mode full has run the full sync and then the refresh, both
\* returned, and has exited zero; the store holds the succeeded record of the run.
C15_Witness ==
    /\ ppc = "stopped" /\ argv = "full" /\ exit = "ok"
    /\ onceCalls = OnceSuccess("full")
    /\ Len(records) = bootLen + 1
    /\ records[Len(records)].status = "succeeded"

\* The ids a link or lookup field of a record holds (none when it is missing).
FieldIds(record, field) == Range(Get(Get(record, "fields", <<>>), field, <<>>))

\* The junction records holding every given id in the given fields.
Producers(table, ids, fields) ==
    {i \in 1..Len(table) : \A k \in 1..Len(ids) : ids[k] \in FieldIds(table[i], fields[k])}

\* C16: every tuple of the five relationship sets was produced by a record that
\* holds each component in the corresponding field (for a goal pair: whose id
\* is the goal component), so no tuple has an empty or absent component and a
\* record lacking a required field contributes no tuple.
C16_NoPartialTuples ==
    /\ \A t \in category_combinations :
          Producers(junct, t, <<CategoryField, DataField>>) # {}
    /\ \A t \in sdg_combinations :
          Producers(junct, t, <<SdgField, DataField>>) # {}
    /\ \A t \in full_chain_combinations :
          Producers(junct, t, <<CategoryField, SdgField, DataField>>) # {}
    /\ \A t \in theme_goal_pairs :
          \E i \in Producers(goals, <<t[1]>>, <<ThemeField>>) : goals[i]["id"] = t[2]
    /\ \A t \in goal_sdg_pairs :
          \E i \in Producers(goals, <<t[2]>>, <<GoalSdgField>>) : goals[i]["id"] = t[1]

\* The junction record has categories and data-needed items but no SDG field:
\* category pairs and nothing else; of two goals the first lacks the themes
\* field and the second lacks the SDG field.
C16_Witness ==
    /\ cpc = "done"
    /\ category_combinations # {} /\ sdg_combinations = {} /\ full_chain_combinations = {}
    /\ "fields" \in DOMAIN junct[1] /\ SdgField \notin DOMAIN junct[1]["fields"]
    /\ Len(goals) = 2
    /\ theme_goal_pairs = {<<"T1", "G2">>}
    /\ goal_sdg_pairs = {<<"G1", "S1">>}
    /\ "fields" \in DOMAIN goals[1] /\ ThemeField \notin DOMAIN goals[1]["fields"]
    /\ "fields" \in DOMAIN goals[2] /\ GoalSdgField \notin DOMAIN goals[2]["fields"]

\* C17: in every execution of run_full_sync and run_delta_sync the transfer is
\* invoked at most once and only with sync_id bound to the record
\* start_sync_record created, the invocation has created at most one record
\* (the store holds what it held at entry plus, once sync_id is bound, that
\* record), and when start_sync_record raised the transfer was not invoked.
C17_RecordBeforeTransfer ==
    job # "none" =>
        /\ Len(transferCalls) <= 1
        /\ (transferCalls # <<>> => sync_id # 0)
        /\ Len(records) = Len(entryRecords) + (IF sync_id = 0 THEN 0 ELSE 1)
        /\ (sync_id # 0 =>
              /\ sync_id = Len(records)
              /\ records[sync_id].sync_type = JobType(job))
        /\ (err = "start" => transferCalls = <<>> /\ sync_id = 0)

\* A full sync whose transfer raised has ended: one record created, one
\* transfer call, no second attempt.
C17_Witness ==
    /\ job = "full" /\ jpc = "raised" /\ err = "transfer"
    /\ Len(transferCalls) = 1
    /\ Len(records) = Len(entryRecords) + 1
    /\ entryRecords # <<>>

\* C18: whatever the junction table holds, the theme-goal set is exactly the
\* pairs (t, g.id) for a goal record g and t in g's themes link field, and the
\* goal-SDG set exactly the pairs (g.id, s) for s in g's SDG link field; a goal
\* whose link field is empty or missing contributes no pair of that relation.
C18_GoalLinkPairs ==
    /\ cpc \in {"sdgs", "done"} =>
          theme_goal_pairs =
              UNION {{<<t, goals[i]["id"]>> : t \in FieldIds(goals[i], ThemeField)} :
                        i \in 1..Len(goals)}
    /\ cpc = "done" =>
          goal_sdg_pairs =
              UNION {{<<goals[i]["id"], x>> : x \in FieldIds(goals[i], GoalSdgField)} :
                        i \in 1..Len(goals)}

\* Two goals hold theme T1 and only the first an SDG, while the junction
\* record implies no tuple at all.
C18_Witness ==
    /\ cpc = "done"
    /\ theme_goal_pairs = {<<"T1", "G1">>, <<"T1", "G2">>}
    /\ goal_sdg_pairs = {<<"G1", "S1">>}
    /\ category_combinations = {} /\ sdg_combinations = {}

\* C19: when get_last_successful_sync or start_sync_record raised, the job has
\* invoked neither fail_sync_record nor complete_sync_record: no fail call is
\* recorded, no sync_id is bound, the run records are those that existed when
\* the job was entered, and the job does not return normally.
C19_EarlyFailureTouchesNoRecord ==
    (job # "none" /\ err \in {"read", "start"}) =>
        /\ failCalls = <<>>
        /\ ~failRaised
        /\ sync_id = 0
        /\ transferCalls = <<>>
        /\ records = entryRecords
        /\ jpc \in {"handler", "raised"}

\* A delta sync has raised to its caller after start_sync_record raised, the
\* store holding records of earlier runs.
C19_Witness ==
    /\ job = "delta" /\ jpc = "raised" /\ err = "start"
    /\ readSeen > 0
    /\ records = entryRecords
    /\ failCalls = <<>>

\* C20: every triplet (c, s, d) of the full-chain set has (c, d) in the
\* category-data set and (s, d) in the SDG-data set, so the triplet set is
\* empty whenever either pair set is empty.
C20_TripletsWithinPairs ==
    /\ \A t \in full_chain_combinations :
          /\ <<t[1], t[3]>> \in category_combinations
          /\ <<t[2], t[3]>> \in sdg_combinations
    /\ (category_combinations = {} \/ sdg_combinations = {}) =>
          full_chain_combinations = {}

\* Two records were processed and left triplets, though fewer than the pair
\* sets would combine to: the triplets come from single records.
C20_Witness ==
    /\ processed = 2
    /\ full_chain_combinations # {}
    /\ \E p \in category_combinations : \E q \in sdg_combinations :
          p[2] = q[2] /\ <<p[1], q[1], p[2]>> \notin full_chain_combinations

====
